---- MODULE Spec2Model ----
(***************************************************************************)
(* A model of go-shell (gosh): the Shell of internal/shell/shell.go and    *)
(* the run loops that drive it (main, Shell.Start).                         *)
(*                                                                         *)
(* Strings are sequences of bytes (0..255).  The shell is a state machine  *)
(* whose steps are the blocking points of the code: reading one byte from  *)
(* standard input, starting an external process and waiting for it.        *)
(***************************************************************************)
EXTENDS Integers, Sequences, FiniteSets, TLC

(***************************************************************************)
(* Bytes the code names.                                                   *)
(***************************************************************************)
NUL      == 0
NL       == 10
ESC      == 27
SP       == 32
KeyA     == 65
KeyB     == 66
KeyC     == 67
KeyD     == 68
LBracket == 91
Bar      == 124
DEL      == 127
Slash    == 47

(***************************************************************************)
(* Bounds of the model.                                                    *)
(***************************************************************************)
\* keystroke chunks the user types in one session
MaxKeys     == 3
\* entries of a history in the persistence round trip
MaxEntries  == 2
\* bytes of one such entry
MaxEntryLen == 2

(***************************************************************************)
(* Words used by the code and by the sample input.                         *)
(***************************************************************************)
empty       == << >>
cdName      == <<99, 100>>                          \* "cd"
pwdName     == <<112, 119, 100>>                    \* "pwd"
historyName == <<104, 105, 115, 116, 111, 114, 121>> \* "history"
exitName    == <<101, 120, 105, 116>>               \* "exit"
lsName      == <<108, 115>>                         \* "ls"
wcName      == <<119, 99>>                          \* "wc"
nxName      == <<110, 120>>                         \* "nx", no such program
dName       == <<100>>                              \* "d", a directory
rootDir     == <<47>>                               \* "/"
subDir      == <<47, 100>>                          \* "/d"

(***************************************************************************)
(* The environment: the programs on PATH, the directories that exist, the  *)
(* directory the shell process was started in.                             *)
(***************************************************************************)
Executables == {lsName, wcName, pwdName}
Directories == {rootDir, subDir}
osCwd       == rootDir

(***************************************************************************)
(* unicode categories of the Latin-1 runes, as package unicode has them.   *)
(***************************************************************************)
IsSpace(r)  == r \in (9..13) \cup {32, 133, 160}
IsDigit(r)  == r \in 48..57
IsLetter(r) == r \in (65..90) \cup (97..122) \cup {170, 181, 186}
                     \cup (192..214) \cup (216..246) \cup (248..255)
IsPunct(r)  == r \in {33, 34, 35, 37, 38, 39, 40, 41, 42, 44, 45, 46, 47,
                      58, 59, 63, 64, 91, 92, 93, 95, 123, 125,
                      161, 167, 171, 182, 183, 187, 191}
IsSymbol(r) == r \in {36, 43, 60, 61, 62, 94, 96, 124, 126,
                      162, 163, 164, 165, 166, 168, 169, 172, 174, 175,
                      176, 177, 180, 184, 215, 247}

\* string(c) for a byte c: the UTF-8 encoding of the rune c
RuneString(c) == IF c < 128 THEN <<c>>
                 ELSE <<192 + (c \div 64), 128 + (c % 64)>>

(***************************************************************************)
(* package strings                                                         *)
(***************************************************************************)
\* width in bytes of the white space the string s starts with at index i
\* (0 when s[i] starts no white space): ASCII white space, U+0085, U+00A0
SpaceWidthAt(s, i) ==
    IF i > Len(s) THEN 0
    ELSE IF s[i] < 128 THEN (IF IsSpace(s[i]) THEN 1 ELSE 0)
    ELSE IF s[i] = 194 /\ i < Len(s) /\ s[i + 1] \in {133, 160} THEN 2
    ELSE 0

\* width of the white space s ends with at index i (its last byte)
SpaceWidthBefore(s, i) ==
    IF i < 1 THEN 0
    ELSE IF s[i] < 128 THEN (IF IsSpace(s[i]) THEN 1 ELSE 0)
    ELSE IF s[i] \in {133, 160} /\ i > 1 /\ s[i - 1] = 194 THEN 2
    ELSE 0

RECURSIVE TrimLeft(_)
TrimLeft(s) ==
    LET w == SpaceWidthAt(s, 1)
    IN  IF w = 0 THEN s ELSE TrimLeft(SubSeq(s, w + 1, Len(s)))

RECURSIVE TrimRight(_)
TrimRight(s) ==
    LET w == SpaceWidthBefore(s, Len(s))
    IN  IF w = 0 THEN s ELSE TrimRight(SubSeq(s, 1, Len(s) - w))

TrimSpace(s) == TrimRight(TrimLeft(s))

Contains(s, c) == \E i \in 1..Len(s) : s[i] = c

\* strings.Split(s, sep) for a one-byte separator: Count(s, sep) + 1 pieces
RECURSIVE SplitFrom(_, _, _, _)
SplitFrom(s, sep, cur, acc) ==
    IF s = << >> THEN Append(acc, cur)
    ELSE IF Head(s) = sep THEN SplitFrom(Tail(s), sep, << >>, Append(acc, cur))
    ELSE SplitFrom(Tail(s), sep, Append(cur, Head(s)), acc)

Split(s, sep) == SplitFrom(s, sep, << >>, << >>)

\* strings.Join(elems, sep) for a one-byte separator
RECURSIVE Join(_, _)
Join(elems, sep) ==
    IF elems = << >> THEN << >>
    ELSE IF Len(elems) = 1 THEN elems[1]
    ELSE elems[1] \o <<sep>> \o Join(Tail(elems), sep)

\* strings.Fields(s): the maximal runs of non-white-space
RECURSIVE FieldsFrom(_, _, _, _)
FieldsFrom(s, i, cur, acc) ==
    IF i > Len(s) THEN (IF cur = << >> THEN acc ELSE Append(acc, cur))
    ELSE LET w == SpaceWidthAt(s, i)
         IN  IF w > 0
             THEN FieldsFrom(s, i + w, << >>,
                             IF cur = << >> THEN acc ELSE Append(acc, cur))
             ELSE FieldsFrom(s, i + 1, Append(cur, s[i]), acc)

Fields(s) == FieldsFrom(s, 1, << >>, << >>)

(***************************************************************************)
(* package path, for the names changeDir is given here: names made of      *)
(* elements and slashes, with no "." or ".." element.                      *)
(***************************************************************************)
IsAbs(p) == Len(p) > 0 /\ p[1] = Slash

\* path.Clean: one slash between elements, none at the end
PathClean(p) ==
    LET elems  == SelectSeq(Split(p, Slash), LAMBDA e : e # << >>)
        joined == Join(elems, Slash)
    IN  IF IsAbs(p) THEN <<Slash>> \o joined
        ELSE IF joined = << >> THEN <<46>> ELSE joined

\* path.Join(a, b), a not empty
PathJoin(a, b) == IF b = << >> THEN PathClean(a)
                  ELSE PathClean(a \o <<Slash>> \o b)

\* os.ReadDir(dir) succeeds
ReadDirOk(dir) == PathClean(dir) \in Directories

\* exec.LookPath(name) succeeds
LookPathOk(name) == name \in Executables

(***************************************************************************)
(* The methods of Shell that do not block.                                 *)
(***************************************************************************)
insertChar(in, c) == in \o RuneString(c)

deleteChar(in) == IF Len(in) = 0 THEN in ELSE SubSeq(in, 1, Len(in) - 1)

isValidChar(b) ==
    IF b = NL THEN TRUE
    ELSE IF b = LBracket THEN FALSE
    ELSE IsSpace(b) \/ IsDigit(b) \/ IsLetter(b) \/ IsPunct(b) \/ IsSymbol(b)

\* the history file: exists says whether there is one, data is its content
NoFile == [exists |-> FALSE, data |-> << >>]
FileOf(d) == [exists |-> TRUE, data |-> d]

\* loadHistory: the history after it, given the history before and the file
loadHistory(h, f) == IF ~f.exists THEN h ELSE Split(f.data, NL)

\* saveHistory: the file after it
saveHistory(h) == FileOf(Join(h, NL))

addToHistory(h, in) == Append(h, in)

\* previousCommand with the cursor moved before the range check
previousCommandCounts(h, pos, in) ==
    LET idx == Len(h) - pos - 1
    IN  IF idx >= 0 /\ idx < Len(h)
        THEN [historyPos |-> pos + 1, ret |-> h[idx + 1], alert |-> 0]
        ELSE [historyPos |-> pos + 1, ret |-> in, alert |-> 1]

\* nextCommand with the index of the entry on display
nextCommandSame(h, pos, in) ==
    LET idx == Len(h) - pos
    IN  IF idx >= 0 /\ idx < Len(h)
        THEN [historyPos |-> pos - 1, ret |-> h[idx + 1], alert |-> 0]
        ELSE [historyPos |-> pos, ret |-> in, alert |-> 1]

\* nextCommand stepping below the most recent entry, back to the typed text
nextCommandToLive(h, pos, in) ==
    LET idx == Len(h) - pos + 1
    IN  IF idx >= 0 /\ idx < Len(h)
        THEN [historyPos |-> pos - 1, ret |-> h[idx + 1], alert |-> 0]
        ELSE IF idx = Len(h)
        THEN [historyPos |-> pos - 1, ret |-> in, alert |-> 0]
        ELSE [historyPos |-> pos, ret |-> in, alert |-> 1]

\* previousCommand and nextCommand: the cursor after the call, the string
\* returned, and the number of alerts printed
previousCommand(h, pos, in) ==
    LET idx == Len(h) - pos - 1
    IN  IF idx >= 0 /\ idx < Len(h)
        THEN [historyPos |-> pos + 1, ret |-> h[idx + 1], alert |-> 0]
        ELSE [historyPos |-> pos, ret |-> in, alert |-> 1]

nextCommand(h, pos, in) ==
    LET idx == Len(h) - pos + 1
    IN  IF idx >= 0 /\ idx < Len(h)
        THEN [historyPos |-> pos - 1, ret |-> h[idx + 1], alert |-> 0]
        ELSE [historyPos |-> pos, ret |-> in, alert |-> 1]

\* changeDir: the working directory after it, whether it returned an error,
\* and the directory it printed and tried to read
changeDir(wd, dir) ==
    LET target == IF IsAbs(dir) THEN dir ELSE PathJoin(wd, dir)
    IN  IF ReadDirOk(target)
        THEN [workingDir |-> target, err |-> FALSE, target |-> target]
        ELSE [workingDir |-> wd, err |-> TRUE, target |-> target]

\* the streams of an exec.Cmd
NilStream    == [kind |-> "nil", data |-> << >>]
OsStream     == [kind |-> "os", data |-> << >>]
BufStream(d) == [kind |-> "buf", data |-> d]

\* exec.Command(name, args...): no stream and no directory set
Command(name, args) ==
    [name |-> name, args |-> args, dir |-> << >>,
     stdin |-> NilStream, stdout |-> NilStream, stderr |-> NilStream]

\* parseCommand panics when the input has no field
parseCommandPanics(in) == Fields(in) = << >>

parseCommand(in) ==
    LET fields == Fields(in)
    IN  Command(fields[1], Tail(fields))

(***************************************************************************)
(* One iteration of the loop of readInput on the byte b: the buffer, the   *)
(* previous byte and the cursor after it, the alerts printed, the event    *)
(* the byte was taken for, and whether the loop is left.                   *)
(***************************************************************************)
readInputByte(in, pv, h, pos, b) ==
    IF pv = LBracket
    THEN IF b = KeyA
         THEN LET r == previousCommand(h, pos, in)
              IN  [input |-> r.ret, prev |-> NUL, historyPos |-> r.historyPos,
                   alert |-> r.alert, event |-> "RecallPrevious", brk |-> FALSE]
         ELSE IF b = KeyB
         THEN LET r == nextCommand(h, pos, in)
              IN  [input |-> r.ret, prev |-> NUL, historyPos |-> r.historyPos,
                   alert |-> r.alert, event |-> "RecallNext", brk |-> FALSE]
         ELSE IF b = KeyD \/ b = KeyC
         THEN [input |-> in, prev |-> NUL, historyPos |-> pos,
               alert |-> 0, event |-> "CursorMove", brk |-> FALSE]
         ELSE LET in1 == insertChar(in, pv)
              IN  [input |-> IF isValidChar(b) THEN insertChar(in1, b) ELSE in1,
                   prev |-> b, historyPos |-> pos,
                   alert |-> 0, event |-> "Literal", brk |-> FALSE]
    ELSE IF b = LBracket
    THEN [input |-> in, prev |-> b, historyPos |-> pos,
          alert |-> 0, event |-> "Bracket", brk |-> FALSE]
    ELSE [input |-> IF b = DEL THEN deleteChar(in)
                    ELSE IF isValidChar(b) THEN insertChar(in, b) ELSE in,
          prev |-> IF b = NL THEN pv ELSE b,
          historyPos |-> pos,
          alert |-> 0,
          event |-> IF b = NL THEN "Submit"
                    ELSE IF b = DEL THEN "Backspace"
                    ELSE IF isValidChar(b) THEN "Insert" ELSE "Drop",
          brk |-> b = NL]

(***************************************************************************)
(* The state.                                                              *)
(***************************************************************************)
VARIABLES
    entry,        \* the run loop in use: "main" or "Start"
    pc,           \* where the shell is
    workingDir,   \* Shell.workingDir
    history,      \* Shell.history
    historyPos,   \* Shell.historyPos
    input,        \* Shell.input
    lastPrinted,  \* Shell.lastPrinted
    prev,         \* readInput's prev
    line,         \* Prompt's input, the string readInput returned
    deferred,     \* Prompt has deferred addToHistory(line)
    cmds,         \* handlePipeCommands' commands
    stage,        \* handlePipeCommands' i, from 1; 0 outside a pipeline
    pipeErr,      \* what handlePipeCommands returned: "nil", "start", "exit"
    runs,         \* the processes started in this cycle, in order
    printed,      \* what the shell itself printed in this cycle
    event,        \* the event readInput took the last byte for
    bell,         \* the alerts readInput printed on the last byte
    sig,          \* what became of an interrupt sent while a child ran
    escPending,   \* bytes still to come of the escape sequence the last ESC began
    file,         \* the history file
    ctxDone,      \* Start's context is cancelled
    stdin,        \* bytes typed and not yet read from standard input
    rbuf,         \* bytes readInput's bufio.Reader holds
    eof,          \* standard input is at its end
    keys,         \* keystroke chunks typed so far
    saved         \* the history the last saveHistory wrote

shellVars == <<workingDir, history, historyPos, input, lastPrinted>>
cycleVars == <<prev, line, deferred, cmds, stage, pipeErr, runs, printed,
               event, bell, sig, escPending>>
envVars   == <<entry, file, ctxDone, stdin, rbuf, eof, keys, saved>>
vars      == <<pc, shellVars, cycleVars, envVars>>

(***************************************************************************)
(* The input: what the user types, a chunk at a time.                      *)
(***************************************************************************)
Line(s) == s \o <<NL>>

EditKeys == { <<ESC, LBracket, KeyA>>,          \* up arrow
              <<ESC, LBracket, KeyB>>,          \* down arrow
              <<DEL>>,
              <<SP>>,
              lsName }

LineKeys == { Line(empty),
              Line(historyName),
              Line(exitName),
              Line(nxName),
              Line(cdName \o <<SP>> \o dName),
              Line(lsName \o <<SP, Bar, SP>> \o wcName),
              Line(nxName \o <<Bar>> \o wcName),
              Line(lsName \o <<Bar>>) }

Keys == EditKeys \cup LineKeys

\* the history files a session may start with
Files == { NoFile, FileOf(lsName \o <<NL>> \o wcName) }

\* what an external program may write to its standard output
ProcOutputs == { << >>, <<111, 107>> }

Msg(text, arg) == [text |-> text, arg |-> arg]

(***************************************************************************)
(* NewShell has returned; the run loop is about to start.                  *)
(***************************************************************************)
Init ==
    /\ entry \in {"main", "Start"}
    /\ pc = IF entry = "main" THEN "loop" ELSE "start"
    /\ workingDir = osCwd
    /\ history = << >>
    /\ historyPos = 0
    /\ input = << >>
    /\ lastPrinted = 0
    /\ prev = NUL
    /\ line = << >>
    /\ deferred = FALSE
    /\ cmds = << >>
    /\ stage = 0
    /\ pipeErr = "nil"
    /\ runs = << >>
    /\ printed = << >>
    /\ event = "none"
    /\ bell = 0
    /\ sig = "none"
    /\ escPending = 0
    /\ file \in Files
    /\ (entry = "main" => file = NoFile)
    /\ ctxDone = FALSE
    /\ stdin = << >>
    /\ rbuf = << >>
    /\ eof = FALSE
    /\ keys = 0
    /\ saved = << >>

(***************************************************************************)
(* The environment.                                                        *)
(***************************************************************************)
\* the user types a chunk while the shell waits for input
UserType ==
    /\ pc = "read" /\ ~eof /\ stdin = << >> /\ rbuf = << >>
    /\ keys < MaxKeys
    /\ \E k \in Keys : stdin' = k
    /\ keys' = keys + 1
    /\ UNCHANGED <<pc, shellVars, cycleVars, entry, file, ctxDone, rbuf, eof, saved>>

\* standard input ends
CloseStdin ==
    /\ pc = "read" /\ ~eof /\ stdin = << >> /\ rbuf = << >>
    /\ eof' = TRUE
    /\ UNCHANGED <<pc, shellVars, cycleVars, entry, file, ctxDone, stdin, rbuf, keys, saved>>

\* the caller of Start cancels its context, while the shell waits for input
CancelCtx ==
    /\ entry = "Start" /\ ~ctxDone
    /\ pc = "read" /\ stdin = << >> /\ rbuf = << >>
    /\ ctxDone' = TRUE
    /\ UNCHANGED <<pc, shellVars, cycleVars, entry, file, stdin, rbuf, eof, keys, saved>>

(***************************************************************************)
(* Start, up to its loop: signal.Notify and loadHistory.                   *)
(***************************************************************************)
StartBegin ==
    /\ pc = "start"
    /\ history' = loadHistory(history, file)
    /\ pc' = "loop"
    /\ UNCHANGED <<workingDir, historyPos, input, lastPrinted, cycleVars, envVars>>

\* Start's select finds the context done: it returns, and the deferred
\* saveHistory runs
StartReturn ==
    /\ pc = "loop" /\ entry = "Start" /\ ctxDone
    /\ file' = saveHistory(history)
    /\ saved' = history
    /\ pc' = "returned"
    /\ UNCHANGED <<shellVars, cycleVars, entry, ctxDone, stdin, rbuf, eof, keys>>

(***************************************************************************)
(* Prompt, up to the loop of readInput.                                    *)
(***************************************************************************)
PromptBegin ==
    /\ pc = "loop"
    /\ entry = "Start" => ~ctxDone
    /\ input' = << >>
    /\ historyPos' = 0
    /\ prev' = NUL
    /\ rbuf' = << >>
    /\ line' = << >>
    /\ deferred' = FALSE
    /\ cmds' = << >>
    /\ stage' = 0
    /\ pipeErr' = "nil"
    /\ runs' = << >>
    /\ printed' = << >>
    /\ event' = "none"
    /\ bell' = 0
    /\ sig' = "none"
    /\ escPending' = 0
    /\ pc' = "read"
    /\ UNCHANGED <<workingDir, history, lastPrinted, entry, file, ctxDone, stdin, eof, keys, saved>>

(***************************************************************************)
(* readInput: one iteration of its loop.  ReadByte of the bufio.Reader     *)
(* takes what standard input holds when its own buffer is empty.  When the *)
(* loop is left, readInput returns the trimmed buffer.                     *)
(***************************************************************************)
\* the bytes still to come of an escape sequence after the byte b: ESC begins
\* a sequence of three bytes, ESC, the byte after it and the selecting byte
escAfter(n, b) == IF b = ESC THEN 2 ELSE IF n > 0 THEN n - 1 ELSE 0

ReadByte ==
    /\ pc = "read"
    /\ lastPrinted' = 1
    /\ LET avail == IF rbuf # << >> THEN rbuf ELSE stdin
       IN  IF avail = << >>
           THEN /\ eof
                /\ printed' = Append(printed, Msg("error: ", << >>))
                /\ event' = "EndOfInput"
                /\ bell' = 0
                /\ line' = TrimSpace(input)
                /\ pc' = "submitted"
                /\ UNCHANGED <<input, prev, historyPos, rbuf, stdin, escPending>>
           ELSE LET r == readInputByte(input, prev, history, historyPos, Head(avail))
                IN  /\ rbuf' = Tail(avail)
                    /\ stdin' = IF rbuf # << >> THEN stdin ELSE << >>
                    /\ input' = r.input
                    /\ prev' = r.prev
                    /\ historyPos' = r.historyPos
                    /\ bell' = r.alert
                    /\ event' = r.event
                    /\ escPending' = escAfter(escPending, Head(avail))
                    /\ line' = IF r.brk THEN TrimSpace(r.input) ELSE line
                    /\ pc' = IF r.brk THEN "submitted" ELSE "read"
                    /\ UNCHANGED printed
    /\ UNCHANGED <<workingDir, history, deferred, cmds, stage, pipeErr, runs, sig,
                   entry, file, ctxDone, eof, keys, saved>>

(***************************************************************************)
(* Prompt, from the return of readInput to its own return or to the start  *)
(* of a process.                                                           *)
(***************************************************************************)
\* the condition of the deferred addToHistory without the test for "history"
keepsHistoryAll(in) == in # << >> /\ in[1] # SP

\* the condition under which Prompt defers addToHistory(input)
keepsHistory(in) == in # << >> /\ in # historyName /\ in[1] # SP

\* the history when Prompt returns or panics: the deferred call runs
historyAtReturn(h, d, in) == IF d THEN addToHistory(h, in) ELSE h

\* the directory a command runs in: cmd.Dir, or the directory of the shell
\* process when cmd.Dir is empty
effectiveDir(cmd) == IF cmd.dir = << >> THEN osCwd ELSE cmd.dir

\* cmd.Start: the process of a command
startProcess(cmd) ==
    [name |-> cmd.name, args |-> cmd.args, dir |-> effectiveDir(cmd),
     stdin |-> cmd.stdin, stdout |-> cmd.stdout, stderr |-> cmd.stderr,
     state |-> "running", out |-> << >>, status |-> 0]

\* cmd.Run returning without having waited for the process
waitProcessLost(p, out, status) ==
    [p EXCEPT !.out = out, !.status = status]

\* cmd.Wait: the process has written out and exited with status
waitProcess(p, out, status) ==
    [p EXCEPT !.state = "waited", !.out = out, !.status = status]

\* the commands handlePipeCommands parses before it runs any
pipeInputs(in) == Split(in, Bar)

pipePanics(in) == \E i \in 1..Len(pipeInputs(in)) : parseCommandPanics(pipeInputs(in)[i])

pipeCommands(in) == [i \in 1..Len(pipeInputs(in)) |-> parseCommand(pipeInputs(in)[i])]

\* the command Prompt builds for a line without a pipe
promptCommand(wd, name, args) ==
    [Command(name, args) EXCEPT !.dir = wd, !.stdout = OsStream,
                                !.stdin = OsStream, !.stderr = OsStream]

\* Prompt returning without its deferred addToHistory
PromptReturnDropped(d) ==
    /\ history' = history
    /\ deferred' = FALSE
    /\ pc' = "loop"

\* Prompt returns: the deferred addToHistory runs, the loop of main goes on
PromptReturn(d) ==
    /\ history' = historyAtReturn(history, d, line)
    /\ deferred' = FALSE
    /\ pc' = "loop"

Dispatch ==
    /\ pc = "submitted"
    /\ LET d      == keepsHistory(line)
           fields == Fields(line)
       IN  IF Contains(line, Bar)
           THEN IF pipePanics(line)
                THEN \* index out of range in parseCommand: the deferred calls
                     \* run (Prompt's, and Start's saveHistory), the process dies
                     /\ history' = historyAtReturn(history, d, line)
                     /\ file' = IF entry = "Start" THEN saveHistory(history') ELSE file
                     /\ saved' = IF entry = "Start" THEN history' ELSE saved
                     /\ deferred' = FALSE
                     /\ pc' = "crashed"
                     /\ UNCHANGED <<workingDir, cmds, stage, runs, printed>>
                ELSE /\ cmds' = pipeCommands(line)
                     /\ stage' = 1
                     /\ deferred' = d
                     /\ pc' = "pipe"
                     /\ UNCHANGED <<workingDir, history, file, saved, runs, printed>>
           ELSE IF fields = << >>
           THEN /\ PromptReturn(d)
                /\ UNCHANGED <<workingDir, file, saved, cmds, stage, runs, printed>>
           ELSE LET commandName == fields[1]
                    args        == Tail(fields)
                IN  IF commandName = cdName
                    THEN IF Len(args) = 0
                         THEN /\ printed' = Append(printed, Msg("cd: requires 1 argument", << >>))
                              /\ PromptReturn(d)
                              /\ UNCHANGED <<workingDir, file, saved, cmds, stage, runs>>
                         ELSE LET r == changeDir(workingDir, args[1])
                                  p == Append(printed, Msg("changing directory to ", r.target))
                              IN  /\ workingDir' = r.workingDir
                                  /\ printed' = IF r.err
                                                THEN Append(p, Msg("cd: error: ", r.target))
                                                ELSE p
                                  /\ PromptReturn(d)
                                  /\ UNCHANGED <<file, saved, cmds, stage, runs>>
                    ELSE IF commandName = pwdName
                    THEN /\ printed' = Append(printed, Msg("pwd", workingDir))
                         /\ PromptReturn(d)
                         /\ UNCHANGED <<workingDir, file, saved, cmds, stage, runs>>
                    ELSE IF commandName = historyName
                    THEN /\ printed' = Append(printed, Msg("history", Join(history, NL)))
                         /\ PromptReturn(d)
                         /\ UNCHANGED <<workingDir, file, saved, cmds, stage, runs>>
                    ELSE IF commandName = exitName
                    THEN \* os.Exit(0): no deferred call runs
                         /\ pc' = "exited"
                         /\ deferred' = d
                         /\ UNCHANGED <<workingDir, history, file, saved, cmds, stage, runs, printed>>
                    ELSE IF ~LookPathOk(commandName)
                    THEN /\ printed' = Append(printed,
                                              Msg("gosh: command not found: ", commandName))
                         /\ PromptReturn(d)
                         /\ UNCHANGED <<workingDir, file, saved, cmds, stage, runs>>
                    ELSE /\ runs' = Append(runs,
                                 startProcess(promptCommand(workingDir, commandName, args)))
                         /\ deferred' = d
                         /\ pc' = "wait"
                         /\ UNCHANGED <<workingDir, history, file, saved, cmds, stage, printed>>
    /\ UNCHANGED <<historyPos, input, lastPrinted, prev, line, pipeErr, event, bell, sig,
                   escPending,
                   entry, ctxDone, stdin, rbuf, eof, keys>>

(***************************************************************************)
(* handlePipeCommands: the body of its second loop up to the start of the  *)
(* process of cmd.Run.  An error of Run ends the loop; Prompt drops it.    *)
(***************************************************************************)
\* the standard output a stage is given
stageStdout(i, n) == IF i = n THEN OsStream ELSE BufStream(<< >>)

PipeStage ==
    /\ pc = "pipe"
    /\ LET cmd == [cmds[stage] EXCEPT !.stdout = stageStdout(stage, Len(cmds))]
       IN  /\ cmds' = [cmds EXCEPT ![stage] = cmd]
           /\ IF ~LookPathOk(cmd.name)
              THEN /\ pipeErr' = "start"
                   /\ PromptReturn(deferred)
                   /\ UNCHANGED runs
              ELSE /\ runs' = Append(runs, startProcess(cmd))
                   /\ pc' = "wait"
                   /\ UNCHANGED <<history, deferred, pipeErr>>
    /\ UNCHANGED <<workingDir, historyPos, input, lastPrinted, prev, line, stage, printed,
                   event, bell, sig, escPending, envVars>>

(***************************************************************************)
(* The running process ends and cmd.Run returns: the rest of the loop body *)
(* of handlePipeCommands, or the end of Prompt.                            *)
(***************************************************************************)
\* the standard input the next stage is given: the buffer this stage wrote to
nextStdin(p) == BufStream(IF p.stdout.kind = "buf" THEN p.out ELSE << >>)

\* cmd.Run taking every exit status for success
runFailsNever(status) == FALSE

\* cmd.Run returns an error when the process exits with a status other than 0
runFails(status) == status # 0

ProcExit ==
    /\ pc = "wait"
    /\ \E out \in ProcOutputs, status \in {0, 1} :
         LET p == waitProcess(runs[Len(runs)], out, status)
         IN  /\ runs' = [runs EXCEPT ![Len(runs)] = p]
             /\ IF stage = 0
                THEN /\ printed' = IF runFails(status)
                                   THEN Append(printed, Msg("exit status", << >>))
                                   ELSE printed
                     /\ PromptReturn(deferred)
                     /\ UNCHANGED <<cmds, stage, pipeErr>>
                ELSE IF runFails(status)
                THEN /\ pipeErr' = "exit"
                     /\ PromptReturn(deferred)
                     /\ UNCHANGED <<cmds, stage, printed>>
                ELSE IF stage + 1 <= Len(cmds)
                THEN /\ cmds' = [cmds EXCEPT ![stage + 1].stdin = nextStdin(p)]
                     /\ stage' = stage + 1
                     /\ pc' = "pipe"
                     /\ UNCHANGED <<history, deferred, pipeErr, printed>>
                ELSE /\ PromptReturn(deferred)
                     /\ UNCHANGED <<cmds, stage, pipeErr, printed>>
    /\ UNCHANGED <<workingDir, historyPos, input, lastPrinted, prev, line,
                   event, bell, sig, escPending, envVars>>

(***************************************************************************)
(* An interrupt reaches the shell while a child runs.  main registers no   *)
(* handler, so the signal ends the shell.  Start has registered signalChan *)
(* with signal.Notify, but Prompt waits in cmd.Run and nothing receives    *)
(* from the unbuffered channel: the signal is dropped.                     *)
(***************************************************************************)
Interrupt ==
    /\ pc = "wait" /\ sig = "none"
    /\ IF entry = "main"
       THEN sig' = "killed" /\ pc' = "killed"
       ELSE sig' = "dropped" /\ pc' = "wait"
    /\ UNCHANGED <<shellVars, prev, line, deferred, cmds, stage, pipeErr, runs, printed,
                   event, bell, escPending, envVars>>

Next ==
    \/ UserType
    \/ CloseStdin
    \/ CancelCtx
    \/ Interrupt
    \/ StartBegin
    \/ StartReturn
    \/ PromptBegin
    \/ ReadByte
    \/ Dispatch
    \/ PipeStage
    \/ ProcExit

Spec == Init /\ [][Next]_vars

(***************************************************************************)
(* The same shell read byte by byte: the user types single bytes, so that  *)
(* readInput meets every order of ESC, [, the arrow letters, DEL and the   *)
(* newline, and a byte above 127, which insertChar stores as two bytes.    *)
(* Two names are typed whole so that commands and pipelines still run.     *)
(***************************************************************************)
Bytes == {ESC, LBracket, KeyA, KeyB, DEL, NL, SP, 108, 233}

ByteKeys == { <<b>> : b \in Bytes } \cup { lsName, lsName \o <<Bar>> \o wcName }

UserTypeByte ==
    /\ pc = "read" /\ ~eof /\ stdin = << >> /\ rbuf = << >>
    /\ keys < MaxKeys
    /\ \E k \in ByteKeys : stdin' = k
    /\ keys' = keys + 1
    /\ UNCHANGED <<pc, shellVars, cycleVars, entry, file, ctxDone, rbuf, eof, saved>>

NextBytes ==
    \/ UserTypeByte
    \/ CloseStdin
    \/ CancelCtx
    \/ Interrupt
    \/ StartBegin
    \/ StartReturn
    \/ PromptBegin
    \/ ReadByte
    \/ Dispatch
    \/ PipeStage
    \/ ProcExit

SpecBytes == Init /\ [][NextBytes]_vars

(***************************************************************************)
(* The same shell given lines of the cd builtin, with no argument, with a  *)
(* directory, with something that is no directory, with two arguments and  *)
(* with an absolute path, among lines that run a command and a pipeline.   *)
(***************************************************************************)
CdKeys == { Line(cdName),
            Line(cdName \o <<SP>> \o dName),
            Line(cdName \o <<SP>> \o nxName),
            Line(cdName \o <<SP>> \o dName \o <<SP>> \o dName),
            Line(cdName \o <<SP>> \o rootDir),
            Line(pwdName),
            Line(lsName),
            Line(lsName \o <<Bar>> \o wcName) }

UserTypeCd ==
    /\ pc = "read" /\ ~eof /\ stdin = << >> /\ rbuf = << >>
    /\ keys < MaxKeys
    /\ \E k \in CdKeys : stdin' = k
    /\ keys' = keys + 1
    /\ UNCHANGED <<pc, shellVars, cycleVars, entry, file, ctxDone, rbuf, eof, saved>>

NextCd ==
    \/ UserTypeCd
    \/ CloseStdin
    \/ CancelCtx
    \/ Interrupt
    \/ StartBegin
    \/ StartReturn
    \/ PromptBegin
    \/ ReadByte
    \/ Dispatch
    \/ PipeStage
    \/ ProcExit

SpecCd == Init /\ [][NextCd]_vars

(***************************************************************************)
(* The persistence of the history on its own: a session saves a history,   *)
(* a fresh session loads it.                                               *)
(***************************************************************************)
\* the non-empty strings without a newline, of at most n bytes
RECURSIVE EntriesUpTo(_)
EntriesUpTo(n) ==
    IF n = 0 THEN {}
    ELSE LET shorter == EntriesUpTo(n - 1)
         IN  {<<c>> : c \in {SP, 108, 115}} \cup shorter
             \cup {Append(e, c) : e \in shorter, c \in {SP, 108, 115}}

\* the sequences of at most n such entries
RECURSIVE HistoriesUpTo(_)
HistoriesUpTo(n) ==
    IF n = 0 THEN {<< >>}
    ELSE LET shorter == HistoriesUpTo(n - 1)
         IN  shorter \cup {Append(h, e) : h \in shorter, e \in EntriesUpTo(MaxEntryLen)}

InitPersist ==
    /\ entry = "Start"
    /\ pc = "session"
    /\ workingDir = osCwd
    /\ history \in HistoriesUpTo(MaxEntries)
    /\ historyPos = 0
    /\ input = << >>
    /\ lastPrinted = 0
    /\ prev = NUL
    /\ line = << >>
    /\ deferred = FALSE
    /\ cmds = << >>
    /\ stage = 0
    /\ pipeErr = "nil"
    /\ runs = << >>
    /\ printed = << >>
    /\ event = "none"
    /\ bell = 0
    /\ sig = "none"
    /\ escPending = 0
    /\ file = NoFile
    /\ ctxDone = FALSE
    /\ stdin = << >>
    /\ rbuf = << >>
    /\ eof = FALSE
    /\ keys = 0
    /\ saved = << >>

\* the session ends: saveHistory
SaveAtEnd ==
    /\ pc = "session"
    /\ file' = saveHistory(history)
    /\ saved' = history
    /\ pc' = "saved"
    /\ UNCHANGED <<shellVars, cycleVars, entry, ctxDone, stdin, rbuf, eof, keys>>

\* a fresh session (NewShell, no history) calls loadHistory on what was saved
LoadFresh ==
    /\ pc = "saved"
    /\ history' = loadHistory(<< >>, file)
    /\ pc' = "loaded"
    /\ UNCHANGED <<workingDir, historyPos, input, lastPrinted, cycleVars, envVars>>

\* a fresh session calls loadHistory when nothing was ever saved
LoadNothing ==
    /\ pc = "session" /\ ~file.exists
    /\ history' = loadHistory(<< >>, file)
    /\ pc' = "loadedNothing"
    /\ UNCHANGED <<workingDir, historyPos, input, lastPrinted, cycleVars, envVars>>

NextPersist == SaveAtEnd \/ LoadFresh \/ LoadNothing

SpecPersist == InitPersist /\ [][NextPersist]_vars

(***************************************************************************)
(* Properties.                                                             *)
(***************************************************************************)
\* the bytes ReadByte can take next, and the first of them
Available == IF rbuf # << >> THEN rbuf ELSE stdin
NextByte  == Head(Available)

\* ReadByte is about to take A or B after "[": a recall of the history
RecallPending(b) == pc = "read" /\ Available # << >> /\ prev = LBracket /\ NextByte = b

\* the index a recall resolves to, from 0, and whether it is an entry
CandidatePrevious == Len(history) - (historyPos + 1)
CandidateNext     == Len(history) - (historyPos - 1)
InHistory(idx)    == idx >= 0 /\ idx < Len(history)

\* C1: a RecallPrevious or RecallNext whose candidate index is outside
\* [0, len(history)) leaves historyPos and the input buffer as they were and
\* prints exactly one alert.
C1_RecallBounded ==
    [][ReadByte =>
          /\ (RecallPending(KeyA) /\ ~InHistory(CandidatePrevious))
                => (historyPos' = historyPos /\ input' = input /\ bell' = 1)
          /\ (RecallPending(KeyB) /\ ~InHistory(CandidateNext))
                => (historyPos' = historyPos /\ input' = input /\ bell' = 1)
       ]_vars

\* C1 witness: with two entries, a third RecallPrevious has been rejected.
C1_Witness ==
    /\ event = "RecallPrevious" /\ bell = 1
    /\ Len(history) = 2 /\ historyPos = 2
    /\ input = history[1]

\* C2: a cycle starts with the cursor at 0; an accepted RecallPrevious moves
\* the cursor to k = historyPos + 1 and replaces the buffer with the entry
\* history[n-k] (from 0); an accepted RecallNext at cursor k replaces it with
\* history[n-k+1]; the cursor stays within 0..n and, when not 0, resolves to
\* an index of the history.
C2_RecallOrder ==
    [][ /\ PromptBegin => historyPos' = 0
        /\ ReadByte =>
             LET n == Len(history)
             IN  /\ (RecallPending(KeyA) /\ InHistory(CandidatePrevious))
                       => /\ historyPos' = historyPos + 1
                          /\ input' = history[(n - historyPos') + 1]
                 /\ (RecallPending(KeyB) /\ InHistory(CandidateNext))
                       => /\ historyPos' = historyPos - 1
                          /\ input' = history[(n - historyPos + 1) + 1]
                 /\ historyPos' \in 0..n
                 /\ historyPos' > 0 => InHistory(n - historyPos')
      ]_vars

\* C2 witness: with two entries, RecallPrevious twice and then RecallNext
\* shows the newest entry again.
C2_Witness ==
    /\ event = "RecallNext" /\ bell = 0
    /\ Len(history) = 2 /\ historyPos = 1
    /\ input = history[2] /\ history[1] # history[2]

\* Prompt ends: it returns, it panics, or it calls os.Exit
PromptEnds == pc \in {"submitted", "pipe", "wait"} /\ pc' \in {"loop", "crashed", "exited"}

\* the line submitted: the buffer, trimmed
Submitted == TrimSpace(input)

\* a line without a pipe whose command is the exit builtin
IsExitLine(l) == ~Contains(l, Bar) /\ Fields(l) # << >> /\ Fields(l)[1] = exitName

C4_RoundTrip ==
    /\ pc = "loaded" => history = saved
    /\ pc = "loadedNothing" => history = << >>

\* the segments of the line of this cycle
Segments == Split(line, Bar)

\* Prompt is past the parsing of a line with a pipe
PipelineParsed == Contains(line, Bar) /\ pc \notin {"read", "submitted"}

\* C5: for a line with a pipe there are as many stages as segments, each
\* with the first field of its segment as program and the others as
\* arguments; a later stage reads exactly what the stage before it wrote,
\* and only the last stage writes to the standard output of the shell.
C5_PipelineWiring ==
    PipelineParsed =>
        /\ pc # "crashed"
        /\ Len(cmds) = Len(Segments)
        /\ \A i \in 1..Len(cmds) :
              /\ cmds[i].name = Fields(Segments[i])[1]
              /\ cmds[i].args = Tail(Fields(Segments[i]))
        /\ \A j \in 1..Len(runs) :
              /\ j > 1 => runs[j].stdin = BufStream(runs[j - 1].out)
              /\ (runs[j].stdout = OsStream) <=> (j = Len(cmds))

\* C6: the processes of a cycle run one at a time in the order of the
\* stages: only the last one started can be running, and then the shell is
\* waiting for it; none is running when Prompt has returned.
C6_Sequential ==
    /\ \A j \in 1..Len(runs) :
          /\ runs[j].state = "running" => (j = Len(runs) /\ pc \in {"wait", "killed"})
          /\ stage > 0 => runs[j].name = cmds[j].name
    /\ stage > 0 => Len(runs) <= stage
    /\ pc \in {"loop", "read", "submitted", "pipe"} =>
          \A j \in 1..Len(runs) : runs[j].state = "waited"

\* C6 witness: the second stage runs and the first has been waited for.
C6_Witness ==
    /\ pc = "wait" /\ stage = 2 /\ Len(runs) = 2
    /\ runs[1].state = "waited" /\ runs[2].state = "running"

\* the program of this cycle that could not be resolved, if there is one
UnresolvedSingle ==
    /\ ~Contains(line, Bar) /\ Fields(line) # << >>
    /\ Fields(line)[1] \notin {cdName, pwdName, historyName, exitName}
    /\ ~LookPathOk(Fields(line)[1])

\* C7: when a program cannot be resolved, alone or as a stage, the shell
\* prints "command not found" with its name, starts no later stage and is
\* back at the prompt.
C7_NotFoundReported ==
    /\ (pc = "loop" /\ UnresolvedSingle) =>
          /\ Msg("gosh: command not found: ", Fields(line)[1]) \in {printed[i] : i \in 1..Len(printed)}
          /\ runs = << >>
    /\ (pipeErr = "start") =>
          /\ pc = "loop"
          /\ Msg("gosh: command not found: ", cmds[stage].name) \in {printed[i] : i \in 1..Len(printed)}
          /\ Len(runs) < stage

\* C8: every process runs in the working directory of the shell.
C8_RunsInWorkingDir ==
    \A j \in 1..Len(runs) : runs[j].dir = workingDir

\* C9: an interrupt that arrives while a child runs is forwarded to the
\* child and does not end the shell.
C9_InterruptForwarded ==
    sig # "none" => (sig = "forwarded" /\ pc # "killed")

\* C10: at the end of input readInput returns what it has as the line, and
\* no further prompt cycle is started.
C10_EndOfInputEndsLoop ==
    [][event = "EndOfInput" => (line = TrimSpace(input) /\ ~PromptBegin)]_vars

\* C11: no submitted line but the exit builtin ends the shell: the shell
\* does not die of a line, whatever its segments, and it exits only on a
\* line whose command is exit.
C11_OnlyExitEnds ==
    /\ pc # "crashed"
    /\ pc = "exited" => IsExitLine(line)

\* C12: a pipeline with a failing stage leaves the shell state intact: no
\* step of the pipeline's cycle changes workingDir, the history is touched
\* only when Prompt returns, and at the failure Prompt returns with the
\* history of before plus the submitted line.
InPipeline == stage > 0 /\ pc \in {"pipe", "wait"}

C12_FailedPipelineFrame ==
    [][ /\ InPipeline => /\ workingDir' = workingDir
                         /\ history' # history => pc' = "loop"
        /\ (InPipeline /\ pipeErr' # "nil") => /\ pc' = "loop"
                                               /\ history' = Append(history, line) ]_vars

C12_Witness ==
    /\ pc = "loop"
    /\ pipeErr # "nil"
    /\ workingDir = subDir
    /\ Len(history) = 2
    /\ history[2] = line

(***************************************************************************)
(* The editor, byte by byte.  No escape sequence is pending when none of   *)
(* the last two bytes read in the cycle was ESC.                           *)
(***************************************************************************)
NoEscape  == escPending = 0
Reads(b)  == ReadByte /\ Available # << >> /\ NextByte = b
ReadsAny  == ReadByte /\ Available # << >>
Recalls   == {"RecallPrevious", "RecallNext"}

\* the buffer without its last character, of one byte or of two
LastRuneWidth(in)   == IF Len(in) >= 2 /\ in[Len(in)] \in 128..191 THEN 2 ELSE 1
WithoutLastRune(in) == IF in = << >> THEN << >>
                       ELSE SubSeq(in, 1, Len(in) - LastRuneWidth(in))

\* C13: a DEL read while no escape sequence is pending is a Backspace: the
\* buffer loses exactly its last character, or stays empty, and nothing is
\* inserted, whatever was typed before.
C13_DelIsBackspace ==
    [][(Reads(DEL) /\ NoEscape) =>
          /\ event' = "Backspace"
          /\ input' = WithoutLastRune(input)]_vars

\* C14: the first newline read while no escape sequence is pending ends the
\* collection: readInput returns the trimmed buffer at that byte.
C14_NewlineSubmits ==
    [][(Reads(NL) /\ NoEscape) =>
          /\ event' = "Submit"
          /\ pc' = "submitted"
          /\ line' = TrimSpace(input)]_vars

\* C15: a recall is dispatched exactly when A or B is read as the third
\* byte of ESC [; without an escape sequence pending no byte moves the
\* history cursor.
C15_RecallOnlyByEscape ==
    [][ReadsAny =>
          /\ (event' \in Recalls) <=>
                (escPending = 1 /\ prev = LBracket /\ NextByte \in {KeyA, KeyB})
          /\ NoEscape => historyPos' = historyPos]_vars

\* C16: a byte read, unless it recalls an entry, is appended to the buffer
\* only if it is a space, a digit, a letter, punctuation or a symbol and is
\* not [; otherwise the buffer does not grow, so a buffer that was typed
\* holds no [.
Printable(b) == IsSpace(b) \/ IsDigit(b) \/ IsLetter(b) \/ IsPunct(b) \/ IsSymbol(b)

C16_PrintableFilter ==
    [][(ReadsAny /\ event' \notin Recalls) =>
          /\ \/ Len(input') <= Len(input)
             \/ /\ input' = input \o RuneString(NextByte)
                /\ Printable(NextByte)
                /\ NextByte # LBracket
          /\ historyPos' = 0 => ~Contains(input', LBracket)]_vars

\* the submitted line is a cd, its arguments, and the directory it names
IsCdLine  == /\ pc = "submitted" /\ ~Contains(line, Bar)
             /\ Fields(line) # << >> /\ Fields(line)[1] = cdName
CdArgs    == Tail(Fields(line))
CdTarget  == IF IsAbs(CdArgs[1]) THEN CdArgs[1] ELSE PathJoin(workingDir, CdArgs[1])
CdRefused == /\ workingDir' = workingDir
             /\ Len(printed') > Len(printed)
             /\ printed'[Len(printed')].text \in {"cd: requires 1 argument", "cd: error: "}

\* C17: cd takes exactly one argument: with none, or with two or more, it
\* prints a diagnostic and leaves workingDir as it was; so it does with one
\* argument that names no readable directory; workingDir changes only on a
\* cd with exactly one readable target.
C17_CdOneArgument ==
    [][ /\ (Dispatch /\ IsCdLine /\ Len(CdArgs) # 1) => CdRefused
        /\ (Dispatch /\ IsCdLine /\ Len(CdArgs) = 1 /\ ~ReadDirOk(CdTarget)) => CdRefused
        /\ workingDir' # workingDir =>
              (Dispatch /\ IsCdLine /\ Len(CdArgs) = 1 /\ ReadDirOk(CdTarget)) ]_vars

\* C18: the standard error of every process the shell starts, the command
\* of a line without a pipe and every stage of a pipeline, is the shell's
\* own standard error.
C18_StderrConnected ==
    \A j \in 1..Len(runs) : runs[j].stderr = OsStream

\* C19: once a RecallPrevious has moved the cursor off 0 it stays off 0 for
\* the rest of the cycle: a RecallNext at historyPos = 1 is rejected with an
\* alert and leaves cursor and buffer; the cursor stays within
\* 0..len(history); only the next cycle brings it back to 0.
C19_CursorStaysOffZero ==
    [][ /\ (historyPos > 0 /\ historyPos' = 0) => PromptBegin
        /\ (ReadByte /\ RecallPending(KeyB) /\ historyPos = 1)
              => (historyPos' = 1 /\ input' = input /\ bell' = 1)
        /\ historyPos' >= 0 /\ historyPos' <= Len(history') ]_vars

\* C19 witness: with the most recent entry recalled, a RecallNext has been
\* rejected and the entry is still on display.
C19_Witness ==
    /\ event = "RecallNext" /\ bell = 1
    /\ historyPos = 1
    /\ Len(history) = 2 /\ input = history[2]

\* C20: a pipeline stage that starts and exits with a status other than 0
\* aborts the pipeline as a stage that fails to start does: Prompt returns
\* with no later stage started, so the final stage has written nothing to
\* the shell's standard output, the shell prints nothing, and the line is
\* appended to the history.
StageAborted ==
    /\ pc' = "loop"
    /\ Len(runs') <= stage
    /\ stage < Len(cmds) => \A j \in 1..Len(runs') : runs'[j].stdout # OsStream
    /\ printed' = printed
    /\ history' = Append(history, line)

====
